---------------------------- MODULE Spec2Model ----------------------------
(***************************************************************************)
(* A model of the 2D physics simulation of Mecanica-Simulare:              *)
(*   src/components/GameObject.js  GameObject and the three colliders      *)
(*   src/unnamed/part_000          the world: update(), isColliding(),     *)
(*                                 resolveCollision() and their helpers    *)
(*                                                                         *)
(* JavaScript numbers are modelled as exact rationals extended with NaN    *)
(* and the two infinities, so that a division by zero is a value of the    *)
(* model and not an error of it.  Rounding of doubles is not modelled.     *)
(***************************************************************************)
EXTENDS Integers, Sequences, FiniteSets, TLC

(***************************************************************************)
(* Numbers.  [n |-> p, d |-> q] with q > 0 and gcd(p, q) = 1 is p/q;       *)
(* d = 0 holds the non-finite values: n = 1 Infinity, n = -1 -Infinity,    *)
(* n = 0 NaN.                                                              *)
(***************************************************************************)
IAbs(i) == IF i < 0 THEN -i ELSE i

ISign(i) == IF i < 0 THEN -1 ELSE IF i > 0 THEN 1 ELSE 0

RECURSIVE GCD(_, _)
GCD(a, b) == IF b = 0 THEN a ELSE GCD(b, a % b)

\* p/q in lowest terms with a positive denominator, g being gcd(|p|, |q|)
Reduced(p, q, g) ==
    IF q < 0 THEN [n |-> (-p) \div g, d |-> (-q) \div g]
    ELSE [n |-> p \div g, d |-> q \div g]

Frac(p, q) ==
    IF q = 0 THEN [n |-> ISign(p), d |-> 0]
    ELSE Reduced(p, q, GCD(IAbs(p), IAbs(q)))

Num(i) == [n |-> i, d |-> 1]

NaN == [n |-> 0, d |-> 0]

Infinity == [n |-> 1, d |-> 0]

IsNaN(a) == a.d = 0 /\ a.n = 0

IsFinite(a) == a.d > 0

Neg(a) == [n |-> -a.n, d |-> a.d]

\* The four operations below bind their operands to values first (a and b),
\* as JavaScript evaluates the operands of an operator before it applies it.

\* the sum of the finite a and b over the least common denominator, g being
\* the gcd of the two denominators
SumOver(a, b, g) ==
    Frac(a.n * (b.d \div g) + b.n * (a.d \div g), (a.d \div g) * b.d)

\* whether the finite a is below the finite b, g being the gcd of the two
\* denominators
Below(a, b, g) == a.n * (b.d \div g) < b.n * (a.d \div g)

\* a + b: Infinity + -Infinity and anything with NaN are NaN
Add(left, right) ==
    CHOOSE sum \in
      { IF IsNaN(a) \/ IsNaN(b) THEN NaN
        ELSE IF a.d = 0 /\ b.d = 0 THEN (IF a.n = b.n THEN a ELSE NaN)
        ELSE IF a.d = 0 THEN a
        ELSE IF b.d = 0 THEN b
        ELSE SumOver(a, b, GCD(a.d, b.d)) : a \in {left}, b \in {right} } : TRUE

Sub(a, b) == Add(a, Neg(b))

\* a * b: 0 * Infinity is NaN
Mul(left, right) ==
    CHOOSE product \in
      { Frac(a.n * b.n, a.d * b.d) : a \in {left}, b \in {right} } : TRUE

\* a / b: 0/0 and Infinity/Infinity are NaN, x/0 is an infinity of x's sign
Div(left, right) ==
    CHOOSE quotient \in
      { IF b.d = 0 /\ b.n # 0
        THEN (IF a.d = 0 THEN NaN ELSE Num(0))
        ELSE Frac(a.n * b.d * ISign(IF b.n = 0 THEN 1 ELSE b.n), a.d * IAbs(b.n))
        : a \in {left}, b \in {right} } : TRUE

\* a < b: false as soon as one side is NaN
Lt(left, right) ==
    \E a \in {left}, b \in {right} :
      /\ ~IsNaN(a)
      /\ ~IsNaN(b)
      /\ IF a.d > 0 /\ b.d > 0 THEN Below(a, b, GCD(a.d, b.d))
         ELSE IF a.d = 0 /\ b.d = 0 THEN a.n < b.n
         ELSE IF a.d = 0 THEN a.n < 0
         ELSE b.n > 0

Gt(a, b) == Lt(b, a)

\* a === b on numbers: NaN equals nothing
NumEq(a, b) == ~IsNaN(a) /\ ~IsNaN(b) /\ a = b

Le(a, b) == Lt(a, b) \/ NumEq(a, b)

Ge(a, b) == Le(b, a)

MathAbs(a) == [n |-> IAbs(a.n), d |-> a.d]

MathMax(a, b) == IF IsNaN(a) \/ IsNaN(b) THEN NaN ELSE IF Lt(a, b) THEN b ELSE a

MathMin(a, b) == IF IsNaN(a) \/ IsNaN(b) THEN NaN ELSE IF Lt(b, a) THEN b ELSE a

\* floor of the square root of k >= 0, by bisection on lo <= root < hi
RECURSIVE IsqrtIn(_, _, _)
IsqrtIn(k, lo, hi) ==
    IF hi - lo <= 1 THEN lo
    ELSE LET mid == (lo + hi) \div 2
         IN  IF mid * mid <= k THEN IsqrtIn(k, mid, hi) ELSE IsqrtIn(k, lo, mid)

Isqrt(k) == IF k < 2 THEN k ELSE IsqrtIn(k, 1, IF k < 46340 THEN k ELSE 46340)

IsSquare(k) == k >= 0 /\ Isqrt(k) * Isqrt(k) = k

\* whether the square root of the finite a >= 0 is a rational
HasExactRoot(a) == IsFinite(a) /\ IsSquare(a.n) /\ IsSquare(a.d)

\* Math.hypot(a, b).  The root is exact where it is rational; elsewhere it
\* is rounded down to a multiple of 1/d of the radicand (a double rounds too).
MathHypot(a, b) ==
    IF (a.d = 0 /\ a.n # 0) \/ (b.d = 0 /\ b.n # 0) THEN Infinity
    ELSE IF IsNaN(a) \/ IsNaN(b) THEN NaN
    ELSE LET s == Add(Mul(a, a), Mul(b, b))
         IN  IF HasExactRoot(s) THEN Frac(Isqrt(s.n), Isqrt(s.d))
             ELSE Frac(Isqrt(s.n * s.d), s.d)


(***************************************************************************)
(* GameObject and the colliders (src/components/GameObject.js).            *)
(***************************************************************************)
Pt(px, py) == [x |-> px, y |-> py]

\* collider = null
NoCollider == [type |-> "none"]

BoxCollider(offsetX, offsetY, width, height) ==
    [type |-> "box", offsetX |-> offsetX, offsetY |-> offsetY,
     width |-> width, height |-> height]

CircleCollider(offsetX, offsetY, radius) ==
    [type |-> "circle", offsetX |-> offsetX, offsetY |-> offsetY, radius |-> radius]

TriangleCollider(vertices, offsetX, offsetY) ==
    [type |-> "triangle", vertices |-> vertices, offsetX |-> offsetX, offsetY |-> offsetY]

\* new GameObject(x, y, width, height, mass, collider): every argument is
\* stored as given; the other fields keep their class-field defaults.
GameObject(x, y, width, height, mass, collider) ==
    [x |-> x, y |-> y, width |-> width, height |-> height,
     hasGravity |-> TRUE, vx |-> Num(0), vy |-> Num(0), ax |-> Num(0), ay |-> Num(0),
     mass |-> mass, forces |-> << >>, collider |-> collider, rotation |-> Num(0)]

HasCollider(obj) == obj.collider.type # "none"

\* pointInTriangle without its D < 0 branch: one winding only
pointInTriangleOneWinding(px, py, v0, v1, v2) ==
    LET dX   == Sub(px, v2.x)
        dY   == Sub(py, v2.y)
        dX21 == Sub(v2.x, v1.x)
        dY12 == Sub(v1.y, v2.y)
        D    == Add(Mul(dY12, Sub(v0.x, v2.x)), Mul(dX21, Sub(v0.y, v2.y)))
        s    == Add(Mul(dY12, dX), Mul(dX21, dY))
        t    == Add(Mul(Sub(v2.y, v0.y), dX), Mul(Sub(v0.x, v2.x), dY))
    IN  Ge(s, Num(0)) /\ Ge(t, Num(0)) /\ Le(Add(s, t), D)

\* static pointInTriangle(px, py, v0, v1, v2)
pointInTriangle(px, py, v0, v1, v2) ==
    LET dX   == Sub(px, v2.x)
        dY   == Sub(py, v2.y)
        dX21 == Sub(v2.x, v1.x)
        dY12 == Sub(v1.y, v2.y)
        D    == Add(Mul(dY12, Sub(v0.x, v2.x)), Mul(dX21, Sub(v0.y, v2.y)))
        s    == Add(Mul(dY12, dX), Mul(dX21, dY))
        t    == Add(Mul(Sub(v2.y, v0.y), dX), Mul(Sub(v0.x, v2.x), dY))
    IN  IF Lt(D, Num(0))
        THEN Le(s, Num(0)) /\ Le(t, Num(0)) /\ Ge(Add(s, t), D)
        ELSE Ge(s, Num(0)) /\ Ge(t, Num(0)) /\ Le(Add(s, t), D)

\* this.vertices.map(v => ({x: obj.x + offsetX + v.x, y: obj.y + offsetY + v.y}))
WorldVerts(tri, obj) ==
    [i \in 1..3 |-> Pt(Add(Add(obj.x, tri.offsetX), tri.vertices[i].x),
                       Add(Add(obj.y, tri.offsetY), tri.vertices[i].y))]

\* verts[(i + 1) % 3], for the 1-based i
NextVert(i) == (i % 3) + 1

\* the edge loop's distance with the projection left at 0: the squared
\* distance from the circle's center to the vertex v1
edgeDistanceSquaredToVertex(cx, cy, v1, v2) ==
    Add(Mul(Sub(cx, v1.x), Sub(cx, v1.x)), Mul(Sub(cy, v1.y), Sub(cy, v1.y)))

\* The body of the edge loop of the circle-triangle test: the squared distance
\* from the circle's center to the closest point of edge v1-v2.  The code
\* forms edgeUnit = edge / edgeLength and projectionClamped =
\* max(0, min(toCircle . edgeUnit, edgeLength)); the roots cancel in the
\* product edgeUnit * projectionClamped = edge * max(0, min(dot / len^2, 1)),
\* which is what is computed here.  A zero-length edge gives 0/0 = NaN.
edgeDistanceSquared(cx, cy, v1, v2) ==
    LET edge     == Pt(Sub(v2.x, v1.x), Sub(v2.y, v1.y))
        toCircle == Pt(Sub(cx, v1.x), Sub(cy, v1.y))
        lenSq    == Add(Mul(edge.x, edge.x), Mul(edge.y, edge.y))
        dot      == Add(Mul(toCircle.x, edge.x), Mul(toCircle.y, edge.y))
        t        == MathMax(Num(0), MathMin(Div(dot, lenSq), Num(1)))
        closestPoint == Pt(Add(v1.x, Mul(edge.x, t)), Add(v1.y, Mul(edge.y, t)))
        dx       == Sub(cx, closestPoint.x)
        dy       == Sub(cy, closestPoint.y)
    IN  Add(Mul(dx, dx), Mul(dy, dy))

\* TriangleCollider.isCollidingWith, other.type === 'triangle'
TriangleVsTriangle(self, other, selfObj, otherObj) ==
    LET vertsA == WorldVerts(self, selfObj)
        vertsB == WorldVerts(other, otherObj)
    IN  \/ \E i \in 1..3 :
             pointInTriangle(vertsA[i].x, vertsA[i].y, vertsB[1], vertsB[2], vertsB[3])
        \/ \E i \in 1..3 :
             pointInTriangle(vertsB[i].x, vertsB[i].y, vertsA[1], vertsA[2], vertsA[3])

\* TriangleCollider.isCollidingWith, other.type === 'box'
TriangleVsBox(self, other, selfObj, otherObj) ==
    LET vertsA == WorldVerts(self, selfObj)
        bx == Add(otherObj.x, other.offsetX)
        by == Add(otherObj.y, other.offsetY)
        boxCorners == << Pt(bx, by), Pt(Add(bx, other.width), by),
                         Pt(bx, Add(by, other.height)),
                         Pt(Add(bx, other.width), Add(by, other.height)) >>
    IN  \/ \E i \in 1..3 :
             /\ Ge(vertsA[i].x, bx) /\ Le(vertsA[i].x, Add(bx, other.width))
             /\ Ge(vertsA[i].y, by) /\ Le(vertsA[i].y, Add(by, other.height))
        \/ \E k \in 1..4 :
             pointInTriangle(boxCorners[k].x, boxCorners[k].y,
                             vertsA[1], vertsA[2], vertsA[3])

\* the circle branch of TriangleCollider.isCollidingWith without its test of
\* the center against the triangle
TriangleVsCircleEdgesOnly(self, other, selfObj, otherObj) ==
    LET cx == Add(Add(otherObj.x, other.offsetX), other.radius)
        cy == Add(Add(otherObj.y, other.offsetY), other.radius)
        verts == WorldVerts(self, selfObj)
    IN  \E i \in 1..3 :
          Lt(edgeDistanceSquared(cx, cy, verts[i], verts[NextVert(i)]),
             Mul(other.radius, other.radius))

\* TriangleCollider.isCollidingWith, other.type === 'circle'
TriangleVsCircle(self, other, selfObj, otherObj) ==
    LET cx == Add(Add(otherObj.x, other.offsetX), other.radius)
        cy == Add(Add(otherObj.y, other.offsetY), other.radius)
        verts == WorldVerts(self, selfObj)
    IN  \/ pointInTriangle(cx, cy, verts[1], verts[2], verts[3])
        \/ \E i \in 1..3 :
             Lt(edgeDistanceSquared(cx, cy, verts[i], verts[NextVert(i)]),
                Mul(other.radius, other.radius))

TriangleIsCollidingWith(self, other, selfObj, otherObj) ==
    CASE other.type = "triangle" -> TriangleVsTriangle(self, other, selfObj, otherObj)
      [] other.type = "box"      -> TriangleVsBox(self, other, selfObj, otherObj)
      [] other.type = "circle"   -> TriangleVsCircle(self, other, selfObj, otherObj)
      [] OTHER                   -> FALSE

\* BoxCollider.isCollidingWith, other.type === 'box'
BoxVsBox(self, other, selfObj, otherObj) ==
    LET ax == Add(selfObj.x, self.offsetX)
        ay == Add(selfObj.y, self.offsetY)
        bx == Add(otherObj.x, other.offsetX)
        by == Add(otherObj.y, other.offsetY)
    IN  /\ Lt(ax, Add(bx, other.width))
        /\ Gt(Add(ax, self.width), bx)
        /\ Lt(ay, Add(by, other.height))
        /\ Gt(Add(ay, self.height), by)

\* BoxCollider.isCollidingWith, other.type === 'circle'
BoxVsCircle(self, other, selfObj, otherObj) ==
    LET rx == Add(selfObj.x, self.offsetX)
        ry == Add(selfObj.y, self.offsetY)
        cx == Add(Add(otherObj.x, other.offsetX), other.radius)
        cy == Add(Add(otherObj.y, other.offsetY), other.radius)
        closestX == MathMax(rx, MathMin(cx, Add(rx, self.width)))
        closestY == MathMax(ry, MathMin(cy, Add(ry, self.height)))
        dx == Sub(cx, closestX)
        dy == Sub(cy, closestY)
    IN  Lt(Add(Mul(dx, dx), Mul(dy, dy)), Mul(other.radius, other.radius))

BoxIsCollidingWith(self, other, selfObj, otherObj) ==
    CASE other.type = "box"      -> BoxVsBox(self, other, selfObj, otherObj)
      [] other.type = "circle"   -> BoxVsCircle(self, other, selfObj, otherObj)
      [] other.type = "triangle" -> TriangleIsCollidingWith(other, self, otherObj, selfObj)
      [] OTHER                   -> FALSE

\* the circle branch of CircleCollider.isCollidingWith with <= for <
CircleVsCircleTouching(self, other, selfObj, otherObj) ==
    LET ax == Add(Add(selfObj.x, self.offsetX), self.radius)
        ay == Add(Add(selfObj.y, self.offsetY), self.radius)
        bx == Add(Add(otherObj.x, other.offsetX), other.radius)
        by == Add(Add(otherObj.y, other.offsetY), other.radius)
        dx == Sub(ax, bx)
        dy == Sub(ay, by)
        rSum == Add(self.radius, other.radius)
    IN  Le(Add(Mul(dx, dx), Mul(dy, dy)), Mul(rSum, rSum))

\* CircleCollider.isCollidingWith, other.type === 'circle'
CircleVsCircle(self, other, selfObj, otherObj) ==
    LET ax == Add(Add(selfObj.x, self.offsetX), self.radius)
        ay == Add(Add(selfObj.y, self.offsetY), self.radius)
        bx == Add(Add(otherObj.x, other.offsetX), other.radius)
        by == Add(Add(otherObj.y, other.offsetY), other.radius)
        dx == Sub(ax, bx)
        dy == Sub(ay, by)
        rSum == Add(self.radius, other.radius)
    IN  Lt(Add(Mul(dx, dx), Mul(dy, dy)), Mul(rSum, rSum))

\* CircleCollider.isCollidingWith, other.type === 'triangle'
CircleVsTriangle(self, other, selfObj, otherObj) ==
    LET cx == Add(Add(selfObj.x, self.offsetX), self.radius)
        cy == Add(Add(selfObj.y, self.offsetY), self.radius)
        verts == WorldVerts(other, otherObj)
    IN  \/ pointInTriangle(cx, cy, verts[1], verts[2], verts[3])
        \/ \E i \in 1..3 :
             Lt(edgeDistanceSquared(cx, cy, verts[i], verts[NextVert(i)]),
                Mul(self.radius, self.radius))

CircleIsCollidingWith(self, other, selfObj, otherObj) ==
    CASE other.type = "circle"   -> CircleVsCircle(self, other, selfObj, otherObj)
      [] other.type = "box"      -> BoxIsCollidingWith(other, self, otherObj, selfObj)
      [] other.type = "triangle" -> CircleVsTriangle(self, other, selfObj, otherObj)
      [] OTHER                   -> FALSE

\* collider.isCollidingWith(other, selfObj, otherObj), by the class of collider
isCollidingWith(self, other, selfObj, otherObj) ==
    CASE self.type = "box"      -> BoxIsCollidingWith(self, other, selfObj, otherObj)
      [] self.type = "circle"   -> CircleIsCollidingWith(self, other, selfObj, otherObj)
      [] self.type = "triangle" -> TriangleIsCollidingWith(self, other, selfObj, otherObj)
      [] OTHER                  -> FALSE

(***************************************************************************)
(* The world (src/unnamed/part_000).                                       *)
(***************************************************************************)
tickrate == 60

PPM == 100

\* const tickInterval = 1000 / tickrate
tickInterval == Div(Num(1000), Num(tickrate))

\* const GRAVITY = 9.8 * PPM
GRAVITY == Mul(Frac(98, 10), Num(PPM))

\* function isColliding(a, b)
isColliding(a, b) ==
    IF HasCollider(a) /\ HasCollider(b)
    THEN isCollidingWith(a.collider, b.collider, a, b)
    ELSE FALSE

\* function closestPointOnSegment(px, py, ax, ay, bx, by)
closestPointOnSegment(px, py, ax, ay, bx, by) ==
    LET abx == Sub(bx, ax)
        aby == Sub(by, ay)
        apx == Sub(px, ax)
        apy == Sub(py, ay)
        abLenSq == Add(Mul(abx, abx), Mul(aby, aby))
        t0 == Div(Add(Mul(apx, abx), Mul(apy, aby)), abLenSq)
        t  == MathMax(Num(0), MathMin(Num(1), t0))
    IN  Pt(Add(ax, Mul(abx, t)), Add(ay, Mul(aby, t)))

\* closestPointOnTriangle, the end of one pass of its loop: the candidate pt
\* at squared distance distSq replaces the one kept if (distSq < minDistSq)
keepCloser(kept, pt, distSq) ==
    IF Lt(distSq, kept.minDistSq) THEN [closest |-> pt, minDistSq |-> distSq] ELSE kept

\* ... dx = px - pt.x, dy = py - pt.y, distSq = dx * dx + dy * dy
keepCloserPoint(kept, px, py, pt) ==
    keepCloser(kept, pt, Add(Mul(Sub(px, pt.x), Sub(px, pt.x)),
                             Mul(Sub(py, pt.y), Sub(py, pt.y))))

\* ... one pass of the loop, for the edge v1-v2
closestStep(kept, px, py, v1, v2) ==
    keepCloserPoint(kept, px, py, closestPointOnSegment(px, py, v1.x, v1.y, v2.x, v2.y))

\* the loop of closestPointOnTriangle over the three edges, in order.
\* minDistSq starts at Infinity and closest at null, written here as the
\* point (NaN, NaN): it is only returned when the point itself is NaN, and
\* no such pair passes isColliding.
closestOverEdges(px, py, verts) ==
    closestStep(
        closestStep(
            closestStep([closest |-> Pt(NaN, NaN), minDistSq |-> Infinity],
                        px, py, verts[1], verts[2]),
            px, py, verts[2], verts[3]),
        px, py, verts[3], verts[1]).closest

\* function closestPointOnTriangle(px, py, verts)
closestPointOnTriangle(px, py, verts) ==
    IF pointInTriangle(px, py, verts[1], verts[2], verts[3])
    THEN Pt(px, py)
    ELSE closestOverEdges(px, py, verts)

\* getClosestSurfaceNormal, the end of one pass of its loop:
\* if (Math.abs(dist) < Math.abs(minDist))
keepNearer(kept, normal, dist) ==
    IF Lt(MathAbs(dist), MathAbs(kept.minDist))
    THEN [closestNormal |-> normal, minDist |-> dist]
    ELSE kept

\* ... dist = px * normal.x + py * normal.y, with (px, py) = point - v1
keepNearerEdge(kept, point, v1, normal) ==
    keepNearer(kept, normal, Add(Mul(Sub(point.x, v1.x), normal.x),
                                 Mul(Sub(point.y, v1.y), normal.y)))

\* ... normal = {x: edge.y, y: -edge.x} divided by its length len
unitNormal(ex, ey, len) == Pt(Div(ey, len), Div(Neg(ex), len))

\* ... one pass of the loop, for the edge v1-v2
normalStep(kept, point, v1, v2) ==
    keepNearerEdge(kept, point, v1,
        unitNormal(Sub(v2.x, v1.x), Sub(v2.y, v1.y),
                   MathHypot(Sub(v2.y, v1.y), Neg(Sub(v2.x, v1.x)))))

\* the loop of getClosestSurfaceNormal over the three edges, in order
\* (minDist starts at Infinity, closestNormal at {x: 0, y: 0})
normalOverEdges(point, verts) ==
    normalStep(
        normalStep(
            normalStep([closestNormal |-> Pt(Num(0), Num(0)), minDist |-> Infinity],
                       point, verts[1], verts[2]),
            point, verts[2], verts[3]),
        point, verts[3], verts[1]).closestNormal

\* TriangleCollider.getClosestSurfaceNormal(point, selfObj)
getClosestSurfaceNormal(tri, point, selfObj) ==
    normalOverEdges(point, WorldVerts(tri, selfObj))

\* Math.atan2(y, x) - Math.PI / 2, kept as the term it is
Atan2MinusHalfPi(y, x) == [atan2y |-> y, atan2x |-> x]

\* the velocity part with the normal component reflected, not removed
reflectNormalVelocity(c, nx, ny, vDotN, damping) ==
    IF Lt(vDotN, Num(0))
    THEN [c EXCEPT !.vx = Mul(Sub(c.vx, Mul(Mul(Num(2), vDotN), nx)), damping),
                   !.vy = Mul(Sub(c.vy, Mul(Mul(Num(2), vDotN), ny)), damping)]
    ELSE c

\* resolveCollision, triangle against a dynamic circle, the velocity part:
\* if (vDotN < 0) the normal component of the velocity is removed
removeNormalVelocity(c, nx, ny, vDotN, damping) ==
    IF Lt(vDotN, Num(0))
    THEN [c EXCEPT !.vx = Mul(Sub(c.vx, Mul(vDotN, nx)), damping),
                   !.vy = Mul(Sub(c.vy, Mul(vDotN, ny)), damping)]
    ELSE c

\* ... the push out along the normal (nx, ny) by overlap; the velocity is
\* read before and written after the push, which does not touch it
pushOutCircle(c, nx, ny, overlap) ==
    removeNormalVelocity([c EXCEPT !.x = Add(c.x, Mul(nx, overlap)),
                                   !.y = Add(c.y, Mul(ny, overlap))],
                         nx, ny, Add(Mul(c.vx, nx), Mul(c.vy, ny)), Num(1))

\* ... if (overlap > 0), with nx = dx / dist and ny = dy / dist
separateCircle(c, dx, dy, dist, overlap) ==
    IF Gt(overlap, Num(0))
    THEN pushOutCircle(c, Div(dx, dist), Div(dy, dist), overlap)
    ELSE c

\* ... dist = Math.hypot(dx, dy) and overlap = radius - dist
separateCircleBy(c, dx, dy, dist) ==
    separateCircle(c, dx, dy, dist, Sub(c.collider.radius, dist))

\* ... dx = cx - closest.x and dy = cy - closest.y
separateCircleFrom(c, cx, cy, closest) ==
    separateCircleBy(c, Sub(cx, closest.x), Sub(cy, closest.y),
                     MathHypot(Sub(cx, closest.x), Sub(cy, closest.y)))

\* the world center of a circle body: x + offsetX + radius, y + offsetY + radius
circleCenter(c) ==
    Pt(Add(Add(c.x, c.collider.offsetX), c.collider.radius),
       Add(Add(c.y, c.collider.offsetY), c.collider.radius))

\* ... closest = closestPointOnTriangle(cx, cy, verts)
separateCircleAt(tri, c, center) ==
    separateCircleFrom(c, center.x, center.y,
        closestPointOnTriangle(center.x, center.y, WorldVerts(tri.collider, tri)))

\* resolveCollision, triangle against a dynamic circle: the circle afterwards
\* (the triangle is not written)
resolveTriangleCircle(tri, c) == separateCircleAt(tri, c, circleCenter(c))

\* resolveCollision, triangle against a dynamic box, the velocity part:
\* if (vDotN < 0) the normal component of the velocity is removed
zeroNormalVelocity(b, normal, vDotN) ==
    IF Lt(vDotN, Num(0))
    THEN [b EXCEPT !.vx = Sub(b.vx, Mul(vDotN, normal.x)),
                   !.vy = Sub(b.vy, Mul(vDotN, normal.y))]
    ELSE b

\* ... the push by 2 along the normal, the velocity and the rotation
pushBoxAlong(b, normal) ==
    zeroNormalVelocity([b EXCEPT !.x = Add(b.x, Mul(normal.x, Num(2))),
                                 !.y = Add(b.y, Mul(normal.y, Num(2))),
                                 !.rotation = Atan2MinusHalfPi(normal.y, normal.x)],
                       normal, Add(Mul(b.vx, normal.x), Mul(b.vy, normal.y)))

\* resolveCollision, triangle against a dynamic box: the box afterwards
resolveTriangleBox(tri, b) ==
    pushBoxAlong(b, getClosestSurfaceNormal(tri.collider,
        Pt(Add(b.x, Div(b.width, Num(2))), Add(b.y, Div(b.height, Num(2)))), tri))

\* resolveCollision, the default path, the two branches of if (dx < dy) with
\* the signs reversed: each body is moved towards the other
moveApartReversed(a, b, overlapX, overlapY, dx, dy, aShare, bShare) ==
    IF Lt(dx, dy)
    THEN IF Lt(overlapX, Num(0))
         THEN [a |-> [a EXCEPT !.x = Add(a.x, Mul(dx, aShare)), !.vx = Num(0)],
               b |-> [b EXCEPT !.x = Sub(b.x, Mul(dx, bShare)), !.vx = Num(0)]]
         ELSE [a |-> [a EXCEPT !.x = Sub(a.x, Mul(dx, aShare)), !.vx = Num(0)],
               b |-> [b EXCEPT !.x = Add(b.x, Mul(dx, bShare)), !.vx = Num(0)]]
    ELSE IF Lt(overlapY, Num(0))
         THEN [a |-> [a EXCEPT !.y = Add(a.y, Mul(dy, aShare)), !.vy = Num(0)],
               b |-> [b EXCEPT !.y = Sub(b.y, Mul(dy, bShare)), !.vy = Num(0)]]
         ELSE [a |-> [a EXCEPT !.y = Sub(a.y, Mul(dy, aShare)), !.vy = Num(0)],
               b |-> [b EXCEPT !.y = Add(b.y, Mul(dy, bShare)), !.vy = Num(0)]]

\* resolveCollision, the default path, if (dx < dy) ... else ...: the bodies
\* are moved apart along x or along y and their velocity on that axis zeroed
moveApart(a, b, overlapX, overlapY, dx, dy, aShare, bShare) ==
    IF Lt(dx, dy)
    THEN IF Gt(overlapX, Num(0))
         THEN [a |-> [a EXCEPT !.x = Add(a.x, Mul(dx, aShare)), !.vx = Num(0)],
               b |-> [b EXCEPT !.x = Sub(b.x, Mul(dx, bShare)), !.vx = Num(0)]]
         ELSE [a |-> [a EXCEPT !.x = Sub(a.x, Mul(dx, aShare)), !.vx = Num(0)],
               b |-> [b EXCEPT !.x = Add(b.x, Mul(dx, bShare)), !.vx = Num(0)]]
    ELSE IF Gt(overlapY, Num(0))
         THEN [a |-> [a EXCEPT !.y = Add(a.y, Mul(dy, aShare)), !.vy = Num(0)],
               b |-> [b EXCEPT !.y = Sub(b.y, Mul(dy, bShare)), !.vy = Num(0)]]
         ELSE [a |-> [a EXCEPT !.y = Sub(a.y, Mul(dy, aShare)), !.vy = Num(0)],
               b |-> [b EXCEPT !.y = Add(b.y, Mul(dy, bShare)), !.vy = Num(0)]]

\* the shares exchanged: aShare = a.mass / totalMass, bShare = b.mass /
\* totalMass, so that the heavier body moves more
splitByOwnMass(a, b, overlapX, overlapY, dx, dy, totalMass) ==
    moveApart(a, b, overlapX, overlapY, dx, dy,
              Div(a.mass, totalMass), Div(b.mass, totalMass))

\* ... totalMass, aShare = b.mass / totalMass, bShare = a.mass / totalMass
splitByMass(a, b, overlapX, overlapY, dx, dy, totalMass) ==
    moveApart(a, b, overlapX, overlapY, dx, dy,
              Div(b.mass, totalMass), Div(a.mass, totalMass))

\* ... if (|overlapX| < halfWidths && |overlapY| < halfHeights), with
\* dx = halfWidths - |overlapX| and dy = halfHeights - |overlapY|
resolveOverlap(a, b, overlapX, overlapY, halfWidths, halfHeights) ==
    IF Lt(MathAbs(overlapX), halfWidths) /\ Lt(MathAbs(overlapY), halfHeights)
    THEN splitByMass(a, b, overlapX, overlapY,
                     Sub(halfWidths, MathAbs(overlapX)),
                     Sub(halfHeights, MathAbs(overlapY)), Add(a.mass, b.mass))
    ELSE [a |-> a, b |-> b]

\* resolveCollision, the default path (box/box, circle/circle, ...): the
\* distances between the centers of the two bodies' width x height boxes
\* and the sums of their half extents
resolveDefault(a, b) ==
    resolveOverlap(a, b,
        Sub(Add(a.x, Div(a.width, Num(2))), Add(b.x, Div(b.width, Num(2)))),
        Sub(Add(a.y, Div(a.height, Num(2))), Add(b.y, Div(b.height, Num(2)))),
        Div(Add(a.width, b.width), Num(2)),
        Div(Add(a.height, b.height), Num(2)))

\* resolveCollision without its two branches for a triangle passed as b
resolveCollisionTriangleFirst(a, b) ==
    IF a.collider.type = "triangle" /\ HasCollider(b) /\ b.hasGravity
       /\ b.collider.type = "circle"
    THEN [a |-> a, b |-> resolveTriangleCircle(a, b)]
    ELSE IF a.collider.type = "triangle" /\ HasCollider(b) /\ b.hasGravity
            /\ b.collider.type = "box"
    THEN [a |-> a, b |-> resolveTriangleBox(a, b)]
    ELSE resolveDefault(a, b)

\* function resolveCollision(a, b): the two bodies afterwards
resolveCollision(a, b) ==
    IF a.collider.type = "triangle" /\ HasCollider(b) /\ b.hasGravity
       /\ b.collider.type = "circle"
    THEN [a |-> a, b |-> resolveTriangleCircle(a, b)]
    ELSE IF a.collider.type = "triangle" /\ HasCollider(b) /\ b.hasGravity
            /\ b.collider.type = "box"
    THEN [a |-> a, b |-> resolveTriangleBox(a, b)]
    ELSE IF b.collider.type = "triangle" /\ HasCollider(a) /\ a.hasGravity
            /\ a.collider.type = "circle"
    THEN [a |-> resolveTriangleCircle(b, a), b |-> b]
    ELSE IF b.collider.type = "triangle" /\ HasCollider(a) /\ a.hasGravity
            /\ a.collider.type = "box"
    THEN [a |-> resolveTriangleBox(b, a), b |-> b]
    ELSE resolveDefault(a, b)

\* update(): const deltaTime = tickInterval / 1000
deltaTime == Div(tickInterval, Num(1000))

RECURSIVE sumForces(_, _)
sumForces(forces, i) ==
    IF i > Len(forces) THEN Pt(Num(0), Num(0))
    ELSE LET rest == sumForces(forces, i + 1)
         IN  Pt(Add(forces[i].x, rest.x), Add(forces[i].y, rest.y))

\* integrate with gravity pushed as the force {x: 0, y: GRAVITY}, whatever
\* the mass
integrateUnitForce(obj) ==
    LET forces == IF obj.hasGravity THEN << Pt(Num(0), GRAVITY) >> ELSE obj.forces
        total  == sumForces(forces, 1)
        ax == Div(total.x, obj.mass)
        ay == Div(total.y, obj.mass)
        vy == Add(obj.vy, Mul(ay, deltaTime))
        vx == Add(obj.vx, Mul(ax, deltaTime))
        rotation == IF obj.collider.type = "circle"
                    THEN Add(obj.rotation, Mul(Div(vx, obj.collider.radius), deltaTime))
                    ELSE obj.rotation
    IN  [obj EXCEPT !.forces = forces, !.ax = ax, !.ay = ay, !.vy = vy, !.vx = vx,
                    !.x = Add(obj.x, Mul(vx, deltaTime)),
                    !.y = Add(obj.y, Mul(vy, deltaTime)),
                    !.rotation = rotation]

\* update(), the body of gameObjects.forEach up to the ground check: forces,
\* acceleration, velocity, position and the spin of a circle
integrate(obj) ==
    LET forces == IF obj.hasGravity THEN << Pt(Num(0), Mul(obj.mass, GRAVITY)) >>
                  ELSE obj.forces
        total  == sumForces(forces, 1)
        ax == Div(total.x, obj.mass)
        ay == Div(total.y, obj.mass)
        vy == Add(obj.vy, Mul(ay, deltaTime))
        vx == Add(obj.vx, Mul(ax, deltaTime))
        rotation == IF obj.collider.type = "circle"
                    THEN Add(obj.rotation, Mul(Div(vx, obj.collider.radius), deltaTime))
                    ELSE obj.rotation
    IN  [obj EXCEPT !.forces = forces, !.ax = ax, !.ay = ay, !.vy = vy, !.vx = vx,
                    !.x = Add(obj.x, Mul(vx, deltaTime)),
                    !.y = Add(obj.y, Mul(vy, deltaTime)),
                    !.rotation = rotation]

\* update(): if (obj.y + obj.height > height)
belowGround(obj, h) == Gt(Add(obj.y, obj.height), h)

\* the ground check that stops the body where it is
groundClampInPlace(obj, h) ==
    IF belowGround(obj, h) THEN [obj EXCEPT !.vy = Num(0)] ELSE obj

\* update(): the ground check
groundClamp(obj, h) ==
    IF belowGround(obj, h)
    THEN [obj EXCEPT !.y = Sub(h, obj.height), !.vy = Num(0)]
    ELSE obj

\* update(): one pass of gameObjects.forEach over one body
stepBody(obj, h) == groundClamp(integrate(obj), h)

\* the nested loop with its inner loop starting at the first body (j = 0)
\* instead of at j = i + 1
RECURSIVE collidePairsFromFirst(_, _, _, _)
collidePairsFromFirst(objs, i, j, tested) ==
    IF i > Len(objs) THEN [objs |-> objs, tested |-> tested]
    ELSE IF j > Len(objs) THEN collidePairsFromFirst(objs, i + 1, 1, tested)
    ELSE IF i # j /\ isColliding(objs[i], objs[j])
    THEN collidePairsFromFirst(objs, i, j + 1,
                               Append(tested, [i |-> i, j |-> j, hit |-> TRUE]))
    ELSE collidePairsFromFirst(objs, i, j + 1,
                               Append(tested, [i |-> i, j |-> j, hit |-> FALSE]))

\* update(): the nested loop over the pairs (i, j), i < j, from (i, j) on.
\* The result holds the bodies and, for the record, each pair tested with
\* the outcome of its test, in the order of the tests.
RECURSIVE collidePairs(_, _, _, _)
collidePairs(objs, i, j, tested) ==
    IF i > Len(objs) THEN [objs |-> objs, tested |-> tested]
    ELSE IF j > Len(objs) THEN collidePairs(objs, i + 1, i + 2, tested)
    ELSE IF isColliding(objs[i], objs[j])
    THEN LET r == resolveCollision(objs[i], objs[j])
         IN  collidePairs([objs EXCEPT ![i] = r.a, ![j] = r.b], i, j + 1,
                          Append(tested, [i |-> i, j |-> j, hit |-> TRUE]))
    ELSE collidePairs(objs, i, j + 1, Append(tested, [i |-> i, j |-> j, hit |-> FALSE]))

\* const update = () => ...: the bodies after one tick (render() draws only)
update(objs, h) ==
    collidePairs([k \in 1..Len(objs) |-> stepBody(objs[k], h)], 1, 2, << >>)

(***************************************************************************)
(* State.                                                                  *)
(*   gameObjects  the list of bodies (const gameObjects = [])              *)
(*   height       the height of the world (let height)                     *)
(*   phase        "setup" while init() builds the scene, "running" once    *)
(*                runUpdateLoop() ticks, "pair" and "point" for the        *)
(*                specifications that apply one function to drawn inputs   *)
(*   ticks        the number of update() calls so far, up to MaxTicks      *)
(*   last         the record of the last operation: its name, the bodies   *)
(*                it started from and what it returned                     *)
(***************************************************************************)
VARIABLES gameObjects, height, phase, ticks, last

vars == << gameObjects, height, phase, ticks, last >>

MaxBodies == 2

MaxTicks == 3

\* a body after the field assignments init() makes on a constructed object
WithGravity(obj, g) == [obj EXCEPT !.hasGravity = g]

WithVelocity(obj, v) == [obj EXCEPT !.vx = Num(v[1]), !.vy = Num(v[2])]

(***************************************************************************)
(* The world: init() constructs the bodies, then update() runs once a      *)
(* tick.                                                                   *)
(***************************************************************************)
WorldHeights == { Num(4), Num(6) }

\* the bodies init() may construct: 2 x 2 bodies that overlap, touch or stay
\* clear of each other, of mass 0, 1 or 3, with a box, a circle or no
\* collider, one of them with hasGravity = false
WorldBodies ==
    LET box    == BoxCollider(Num(0), Num(0), Num(2), Num(2))
        circle == CircleCollider(Num(0), Num(0), Num(1))
        body(x, y, m, c) == GameObject(Num(x), Num(y), Num(2), Num(2), Num(m), c)
    IN  { body(0, 0, 1, box), body(1, 0, 3, box), body(0, 2, 3, box),
          body(1, 2, 1, circle), body(0, 0, 0, box), body(3, 0, 1, NoCollider),
          WithGravity(body(0, 1, 1, box), FALSE), body(3, 0, 3, circle) }

WorldInit ==
    /\ gameObjects = << >>
    /\ height \in WorldHeights
    /\ phase = "setup"
    /\ ticks = 0
    /\ last = [op |-> "init"]

\* init(): new GameObject(...), an optional hasGravity = false, and the push
Construct ==
    /\ phase = "setup"
    /\ Len(gameObjects) < MaxBodies
    /\ \E obj \in WorldBodies : gameObjects' = Append(gameObjects, obj)
    /\ last' = [op |-> "construct"]
    /\ UNCHANGED << height, phase, ticks >>

\* init(): runUpdateLoop()
Start ==
    /\ phase = "setup"
    /\ phase' = "running"
    /\ last' = [op |-> "start"]
    /\ UNCHANGED << gameObjects, height, ticks >>

\* runUpdateLoop(timestamp): update(), once tickInterval has passed
Tick ==
    /\ phase = "running"
    /\ LET r == update(gameObjects, height)
       IN  /\ gameObjects' = r.objs
           /\ last' = [op |-> "update", pre |-> gameObjects, tested |-> r.tested]
    /\ ticks' = IF ticks < MaxTicks THEN ticks + 1 ELSE ticks
    /\ UNCHANGED << height, phase >>

BoundedTick == ticks < MaxTicks /\ Tick

Next == Construct \/ Start \/ BoundedTick

Spec == WorldInit /\ [][Next]_vars

(***************************************************************************)
(* One pair of bodies: the test and the resolution that update() applies   *)
(* to each pair, on bodies drawn from a grid.                              *)
(***************************************************************************)
MaxCoord == 4

\* the triangle of init(), a hundredth of its size, and the same triangle
\* with its vertices in the other order
SlopeVerts == << Pt(Num(0), Num(3)), Pt(Num(0), Num(0)), Pt(Num(4), Num(3)) >>

SlopeVertsReversed == << Pt(Num(4), Num(3)), Pt(Num(0), Num(0)), Pt(Num(0), Num(3)) >>

\* a triangle with two coinciding vertices
DegenerateVerts == << Pt(Num(0), Num(0)), Pt(Num(0), Num(0)), Pt(Num(4), Num(3)) >>

\* box bodies at (x, y): the collider covers the body, is wider than it, or
\* is offset from it
BoxBodies(x, y, m) ==
    { GameObject(Num(x), Num(y), Num(2), Num(2), Num(m),
                 BoxCollider(Num(0), Num(0), Num(2), Num(2))),
      GameObject(Num(x), Num(y), Num(3), Num(2), Num(m),
                 BoxCollider(Num(0), Num(0), Num(3), Num(2))),
      GameObject(Num(x), Num(y), Num(2), Num(2), Num(m),
                 BoxCollider(Num(0), Num(0), Num(3), Num(3))),
      GameObject(Num(x), Num(y), Num(2), Num(2), Num(m),
                 BoxCollider(Num(1), Num(0), Num(2), Num(2))) }

\* circle bodies at (x, y): of radius r in a body of side 2r, or offset
CircleBodies(x, y, m) ==
    { GameObject(Num(x), Num(y), Num(2 * r), Num(2 * r), Num(m),
                 CircleCollider(Num(0), Num(0), Num(r))) : r \in 1..3 }
    \cup { GameObject(Num(x), Num(y), Num(2), Num(2), Num(m),
                      CircleCollider(Num(1), Num(0), Num(1))) }

\* triangle bodies at (x, y), static as the one of init()
TriangleBodies(x, y) ==
    { WithGravity(GameObject(Num(x), Num(y), Num(4), Num(3), Num(1),
                             TriangleCollider(v, Num(0), Num(0))), FALSE) :
        v \in { SlopeVerts, SlopeVertsReversed, DegenerateVerts } }

FirstBodies ==
    { WithVelocity(o, <<1, 2>>) : o \in BoxBodies(2, 2, 1) \cup BoxBodies(2, 2, 3)
                                       \cup CircleBodies(2, 2, 1) \cup CircleBodies(2, 2, 3) }
    \cup TriangleBodies(2, 2)

SecondBodiesAt(x, y) ==
    { WithVelocity(o, v) : o \in BoxBodies(x, y, 1) \cup CircleBodies(x, y, 1),
                           v \in { <<0, 0>>, <<2, -3>>, <<-1, -2>> } }
    \cup { WithGravity(o, FALSE) : o \in CircleBodies(x, y, 1) }
    \cup TriangleBodies(x, y)

SecondBodies == UNION { SecondBodiesAt(x, y) : x \in 0..MaxCoord, y \in 0..MaxCoord }

\* Whether the distance resolveCollision takes the root of is rational for
\* the triangle tri and the circle c (the model's numbers are rationals).
RationalDistance(tri, c) ==
    LET center  == circleCenter(c)
        closest == closestPointOnTriangle(center.x, center.y,
                                          WorldVerts(tri.collider, tri))
        dx == Sub(center.x, closest.x)
        dy == Sub(center.y, closest.y)
    IN  HasExactRoot(Add(Mul(dx, dx), Mul(dy, dy)))

Representable(a, b) ==
    /\ (a.collider.type = "triangle" /\ b.collider.type = "circle")
         => RationalDistance(a, b)
    /\ (b.collider.type = "triangle" /\ a.collider.type = "circle")
         => RationalDistance(b, a)

PairInit ==
    /\ gameObjects \in { <<a, b>> : a \in FirstBodies, b \in SecondBodies }
    /\ Representable(gameObjects[1], gameObjects[2])
    /\ height = Num(0)
    /\ phase = "pair"
    /\ ticks = 0
    /\ last = [op |-> "init"]

\* isColliding(a, b) and the same test asked of the other body
Detect ==
    /\ phase = "pair"
    /\ last' = [op |-> "detect",
                ab |-> isColliding(gameObjects[1], gameObjects[2]),
                ba |-> isColliding(gameObjects[2], gameObjects[1])]
    /\ UNCHANGED << gameObjects, height, phase, ticks >>

\* update(): if (isColliding(a, b)) resolveCollision(a, b), which a tick does
\* once for a pair
ResolvePair ==
    /\ phase = "pair"
    /\ ticks = 0
    /\ isColliding(gameObjects[1], gameObjects[2])
    /\ LET r == resolveCollision(gameObjects[1], gameObjects[2])
       IN  gameObjects' = << r.a, r.b >>
    /\ last' = [op |-> "resolve", pre |-> gameObjects]
    /\ ticks' = 1
    /\ UNCHANGED << height, phase >>

PairNext == Detect \/ ResolvePair

PairSpec == PairInit /\ [][PairNext]_vars

(***************************************************************************)
(* pointInTriangle on a point and three vertices drawn from a grid, with   *)
(* the vertices passed in each of their six orders.                        *)
(***************************************************************************)
MaxPoint == 2

GridPoints == { Pt(Num(x), Num(y)) : x \in 0..MaxPoint, y \in 0..MaxPoint }

VertexOrders == { <<1, 2, 3>>, <<3, 2, 1>>, <<2, 1, 3>>, <<1, 3, 2>>, <<2, 3, 1>>, <<3, 1, 2>> }

PointInit ==
    /\ gameObjects = << >>
    /\ height = Num(0)
    /\ phase = "point"
    /\ ticks = 0
    /\ \E p \in GridPoints, v0 \in GridPoints, v1 \in GridPoints, v2 \in GridPoints :
         last = [op |-> "input", p |-> p, v |-> <<v0, v1, v2>>]

Classify ==
    /\ phase = "point"
    /\ last.op = "input"
    /\ last' = [op |-> "classify", p |-> last.p, v |-> last.v,
                inside |-> [o \in VertexOrders |->
                    pointInTriangle(last.p.x, last.p.y,
                                    last.v[o[1]], last.v[o[2]], last.v[o[3]])]]
    /\ UNCHANGED << gameObjects, height, phase, ticks >>

PointSpec == PointInit /\ [][Classify]_vars

(***************************************************************************)
(* The drop: the box "heavy" of init() (30 x 30, mass 7, y = 100) alone in *)
(* a world of fixed height, ticking for ever.                              *)
(***************************************************************************)
MaxDrop == 4

DropHeights == { Num(110) } \cup { Num(130 + 50 * k) : k \in 0..MaxDrop }

DropInit ==
    /\ \E x \in {0, 650} :
         gameObjects = << GameObject(Num(x), Num(100), Num(30), Num(30), Num(7),
                                     BoxCollider(Num(0), Num(0), Num(30), Num(30))) >>
    /\ height \in DropHeights
    /\ phase = "running"
    /\ ticks = 0
    /\ last = [op |-> "start"]

DropSpec == DropInit /\ [][Tick]_vars

\* requestAnimationFrame keeps calling runUpdateLoop
FairDropSpec == DropSpec /\ WF_vars(Tick)

(***************************************************************************)
(* The pair loop: one update() of a world of up to MaxLoopBodies bodies    *)
(* that init() has constructed.                                            *)
(***************************************************************************)
MaxLoopBodies == 3

LoopInit ==
    /\ \E n \in 2..MaxLoopBodies : gameObjects \in [1..n -> WorldBodies]
    /\ height \in WorldHeights
    /\ phase = "running"
    /\ ticks = 0
    /\ last = [op |-> "start"]

\* the first update() that runUpdateLoop calls
FirstTick == ticks = 0 /\ Tick

LoopSpec == LoopInit /\ [][FirstTick]_vars

(***************************************************************************)
(* Properties.                                                             *)
(***************************************************************************)
\* whether body i was in a pair that the last update() found colliding
InHitPair(i) ==
    \E k \in 1..Len(last.tested) :
      last.tested[k].hit /\ (last.tested[k].i = i \/ last.tested[k].j = i)

\* GRAVITY * dt = (9.8 * PPM) * dt
GravityStep == Mul(Mul(Frac(98, 10), Num(PPM)), Frac(1, tickrate))

\* whether the ground check of the last update() caught body i: its lower
\* bound after the step, under gravity alone, is past the world's height
Grounded(i) ==
    LET o  == last.pre[i]
        vy == Add(o.vy, GravityStep)
    IN  Gt(Add(Add(o.y, Mul(vy, Frac(1, tickrate))), o.height), height)

FallsFreely(i) ==
    /\ last.pre[i].hasGravity
    /\ Gt(last.pre[i].mass, Num(0))
    /\ ~InHitPair(i)

\* C1 as stated: a gravity-enabled body of positive mass that is in no
\* colliding pair of an update() gains exactly GRAVITY * dt of vy.
C1_GainsGravityStep ==
    last.op = "update" =>
      \A i \in 1..Len(gameObjects) :
        FallsFreely(i) => gameObjects[i].vy = Add(last.pre[i].vy, GravityStep)

\* C1, amended: a gravity-enabled body of positive mass that is in no
\* colliding pair of an update() and is not caught by its ground check gains
\* exactly GRAVITY * dt of vy, whatever its mass.
C1_GainsGravityStepOffGround ==
    last.op = "update" =>
      \A i \in 1..Len(gameObjects) :
        (FallsFreely(i) /\ ~Grounded(i))
          => gameObjects[i].vy = Add(last.pre[i].vy, GravityStep)

\* two bodies of different mass fell freely in the same update()
C1_Witness ==
    /\ last.op = "update"
    /\ \E i, j \in 1..Len(gameObjects) :
         /\ last.pre[i].mass = Num(1) /\ last.pre[j].mass = Num(3)
         /\ FallsFreely(i) /\ ~Grounded(i)
         /\ FallsFreely(j) /\ ~Grounded(j)
         /\ gameObjects[i].vy = gameObjects[j].vy

\* C2: the overlap test gives the same answer asked of either collider, for
\* every pair of kinds.
C2_OverlapSymmetric == last.op = "detect" => last.ab = last.ba

\* a circle and a triangle that overlap, asked from the circle
C2_Witness ==
    /\ last.op = "detect"
    /\ gameObjects[1].collider.type = "circle"
    /\ gameObjects[2].collider.type = "triangle"
    /\ last.ab

IsInteger(a) == a.d = 1

\* the integer x + offsetX + radius of a circle body at integer coordinates
CenterX(o) == o.x.n + o.collider.offsetX.n + o.collider.radius.n

CenterY(o) == o.y.n + o.collider.offsetY.n + o.collider.radius.n

BothCirclesOnGrid ==
    /\ \A i \in 1..2 : gameObjects[i].collider.type = "circle"
                       /\ IsInteger(gameObjects[i].x) /\ IsInteger(gameObjects[i].y)

\* the squared distance of the two centers
CenterDistSq ==
    (CenterX(gameObjects[1]) - CenterX(gameObjects[2])) *
      (CenterX(gameObjects[1]) - CenterX(gameObjects[2]))
    + (CenterY(gameObjects[1]) - CenterY(gameObjects[2])) *
        (CenterY(gameObjects[1]) - CenterY(gameObjects[2]))

RadiusSum == gameObjects[1].collider.radius.n + gameObjects[2].collider.radius.n

\* C3: two circles overlap iff the distance d of their world centers is less
\* than r1 + r2 (for an integer r1 + r2, d < r1 + r2 iff floor(d) < r1 + r2).
C3_CirclesOverlapIffCloser ==
    (last.op = "detect" /\ BothCirclesOnGrid)
      => (last.ab <=> Isqrt(CenterDistSq) < RadiusSum)

\* two circles that touch, d = r1 + r2, were found not to overlap
C3_Witness ==
    /\ last.op = "detect"
    /\ BothCirclesOnGrid
    /\ CenterDistSq = RadiusSum * RadiusSum
    /\ ~last.ab

\* C4: pointInTriangle gives the same answer for every order of the three
\* vertices, the reversed order among them.
C4_WindingIndependent ==
    last.op = "classify" =>
      \A o \in VertexOrders : last.inside[o] = last.inside[<<1, 2, 3>>]

\* twice the signed area of the triangle of the last classification
SignedArea ==
    (last.v[2].x.n - last.v[1].x.n) * (last.v[3].y.n - last.v[1].y.n)
    - (last.v[3].x.n - last.v[1].x.n) * (last.v[2].y.n - last.v[1].y.n)

\* a point inside a triangle given clockwise, and inside it again with the
\* vertices reversed
C4_Witness ==
    /\ last.op = "classify"
    /\ SignedArea < 0
    /\ last.inside[<<1, 2, 3>>]
    /\ last.inside[<<3, 2, 1>>]

BothBoxes(objs) == \A i \in 1..2 : objs[i].collider.type = "box"

\* C5 as stated: after resolveCollision on two box bodies that passed the
\* Box-Box test, both velocities are zero along one axis and the Box-Box
\* test on the two bodies is false.
C5_BoxesSeparated ==
    (last.op = "resolve" /\ BothBoxes(last.pre))
      => /\ ~isColliding(gameObjects[1], gameObjects[2])
         /\ \/ gameObjects[1].vx = Num(0) /\ gameObjects[2].vx = Num(0)
            \/ gameObjects[1].vy = Num(0) /\ gameObjects[2].vy = Num(0)

\* the body of the resolved pair that carries the triangle, and the other
TriIndex == IF last.pre[1].collider.type = "triangle" THEN 1 ELSE 2

CircIndex == 3 - TriIndex

\* resolveCollision has handled a triangle and a gravity-enabled circle
ResolvedTriangleCircle ==
    /\ last.op = "resolve"
    /\ last.pre[TriIndex].collider.type = "triangle"
    /\ last.pre[CircIndex].collider.type = "circle"
    /\ last.pre[CircIndex].hasGravity

\* the circle's world center before the resolution
PreCenter ==
    LET c == last.pre[CircIndex]
    IN  Pt(Add(Add(c.x, c.collider.offsetX), c.collider.radius),
           Add(Add(c.y, c.collider.offsetY), c.collider.radius))

PreVerts == WorldVerts(last.pre[TriIndex].collider, last.pre[TriIndex])

\* the vector from the closest point of the triangle to the center: the
\* outward normal n times the distance
PreNormal ==
    LET closest == closestPointOnTriangle(PreCenter.x, PreCenter.y, PreVerts)
    IN  Pt(Sub(PreCenter.x, closest.x), Sub(PreCenter.y, closest.y))

Dot(vx, vy, d) == Add(Mul(vx, d.x), Mul(vy, d.y))

Cross(vx, vy, d) == Sub(Mul(vx, d.y), Mul(vy, d.x))

\* 0 < distance < radius: the circle penetrates and n is defined
Penetrates ==
    /\ Gt(Dot(PreNormal.x, PreNormal.y, PreNormal), Num(0))
    /\ Lt(Dot(PreNormal.x, PreNormal.y, PreNormal),
          Mul(last.pre[CircIndex].collider.radius, last.pre[CircIndex].collider.radius))

\* C7: when a triangle and a penetrating gravity-enabled circle are resolved,
\* a velocity with v.n < 0 loses its normal component and keeps its
\* tangential one, and a velocity with v.n >= 0 is unchanged.
C7_NormalVelocityRemoved ==
    (ResolvedTriangleCircle /\ Penetrates) =>
      LET v == last.pre[CircIndex]
          w == gameObjects[CircIndex]
      IN  IF Lt(Dot(v.vx, v.vy, PreNormal), Num(0))
          THEN /\ Dot(w.vx, w.vy, PreNormal) = Num(0)
               /\ Cross(w.vx, w.vy, PreNormal) = Cross(v.vx, v.vy, PreNormal)
          ELSE w.vx = v.vx /\ w.vy = v.vy

\* a circle moving into the slope was stopped along n and still slides
C7_Witness ==
    /\ ResolvedTriangleCircle
    /\ Penetrates
    /\ Lt(Dot(last.pre[CircIndex].vx, last.pre[CircIndex].vy, PreNormal), Num(0))
    /\ Dot(gameObjects[CircIndex].vx, gameObjects[CircIndex].vy, PreNormal) = Num(0)
    /\ Cross(gameObjects[CircIndex].vx, gameObjects[CircIndex].vy, PreNormal) # Num(0)
    /\ PreNormal.x # Num(0)
    /\ PreNormal.y # Num(0)

\* two circle bodies of equal mass and radius r, each a 2r x 2r body with
\* the collider at offset 0
EqualCircles(objs) ==
    /\ \A i \in 1..2 :
         /\ objs[i].collider.type = "circle"
         /\ objs[i].collider.offsetX = Num(0) /\ objs[i].collider.offsetY = Num(0)
         /\ objs[i].width = Mul(Num(2), objs[i].collider.radius)
         /\ objs[i].height = Mul(Num(2), objs[i].collider.radius)
    /\ objs[1].collider.radius = objs[2].collider.radius
    /\ objs[1].mass = objs[2].mass

\* the squared distance of the centers of two circle bodies
CircleDistSq(objs) ==
    LET dx == Sub(Add(Add(objs[1].x, objs[1].collider.offsetX), objs[1].collider.radius),
                  Add(Add(objs[2].x, objs[2].collider.offsetX), objs[2].collider.radius))
        dy == Sub(Add(Add(objs[1].y, objs[1].collider.offsetY), objs[1].collider.radius),
                  Add(Add(objs[2].y, objs[2].collider.offsetY), objs[2].collider.radius))
    IN  Add(Mul(dx, dx), Mul(dy, dy))

\* C8: after resolveCollision on two overlapping circle bodies of equal mass
\* and radius r, their centers are at least 2r apart and the Circle-Circle
\* test on them is false.
C8_EqualCirclesSeparated ==
    (last.op = "resolve" /\ EqualCircles(last.pre)) =>
      /\ Ge(CircleDistSq(gameObjects),
            Mul(Add(gameObjects[1].collider.radius, gameObjects[2].collider.radius),
                Add(gameObjects[1].collider.radius, gameObjects[2].collider.radius)))
      /\ ~isColliding(gameObjects[1], gameObjects[2])

\* two equal circles that overlapped off both axes were moved apart
C8_Witness ==
    /\ last.op = "resolve"
    /\ EqualCircles(last.pre)
    /\ last.pre[1].x # last.pre[2].x
    /\ last.pre[1].y # last.pre[2].y
    /\ gameObjects[1] # last.pre[1]
    /\ gameObjects[2] # last.pre[2]
    /\ ~isColliding(gameObjects[1], gameObjects[2])

\* whether the center before the resolution is off the line through v and w
OffEdge(v, w) ==
    Cross(Sub(PreCenter.x, v.x), Sub(PreCenter.y, v.y),
          Pt(Sub(w.x, v.x), Sub(w.y, v.y))) # Num(0)

\* the center lies in the interior of the triangle
CenterInside ==
    /\ pointInTriangle(PreCenter.x, PreCenter.y, PreVerts[1], PreVerts[2], PreVerts[3])
    /\ OffEdge(PreVerts[1], PreVerts[2])
    /\ OffEdge(PreVerts[2], PreVerts[3])
    /\ OffEdge(PreVerts[3], PreVerts[1])

\* C10 as stated: when the circle's center lies inside the triangle, the
\* circle's position and velocity after resolveCollision are numbers.
C10_InsideStaysNumeric ==
    (ResolvedTriangleCircle /\ CenterInside)
      => /\ IsFinite(gameObjects[CircIndex].x) /\ IsFinite(gameObjects[CircIndex].y)
         /\ IsFinite(gameObjects[CircIndex].vx) /\ IsFinite(gameObjects[CircIndex].vy)

\* the dropped box rests on the floor
AtRest ==
    /\ gameObjects[1].y = Sub(height, gameObjects[1].height)
    /\ gameObjects[1].vy = Num(0)

\* C6: at the end of every tick the dropped box is not below the floor, and
\* from some tick on it rests on the floor at the end of every tick.
C6_DropComesToRest ==
    /\ [](last.op = "update" => Le(Add(gameObjects[1].y, gameObjects[1].height), height))
    /\ <>[]AtRest

\* the box was falling and the tick ended with it at rest on the floor
C6_Witness ==
    /\ last.op = "update"
    /\ Gt(last.pre[1].vy, Num(0))
    /\ Lt(last.pre[1].y, gameObjects[1].y)
    /\ AtRest

\* C9 as stated: every body has mass > 0, and no update() has divided by a
\* zero mass.
C9_MassesPositive ==
    \A i \in 1..Len(gameObjects) :
      /\ Gt(gameObjects[i].mass, Num(0))
      /\ last.op = "update" => IsFinite(gameObjects[i].ay)

\* the bodies of the last update() right after its forEach pass, before
\* any pair is tested
Integrated == [k \in 1..Len(last.pre) |-> stepBody(last.pre[k], height)]

\* whether test k of the last update() comes before test k + 1 in the
\* lexicographic order of (i, j)
TestedBefore(k) ==
    \/ last.tested[k].i < last.tested[k + 1].i
    \/ /\ last.tested[k].i = last.tested[k + 1].i
       /\ last.tested[k].j < last.tested[k + 1].j

\* C11: an update() of n bodies tests n (n - 1) / 2 pairs (i, j), i < j, in
\* strictly increasing lexicographic order, so each pair exactly once; it
\* resolves a pair only when both bodies have a collider and its test was
\* true, in the order of the tests; the first test is the overlap test on
\* the bodies as integrated.
C11_PairsTestedOnceInOrder ==
    last.op = "update" =>
      /\ Len(last.tested) = (Len(gameObjects) * (Len(gameObjects) - 1)) \div 2
      /\ \A k \in 1..Len(last.tested) :
           /\ 1 <= last.tested[k].i
           /\ last.tested[k].i < last.tested[k].j
           /\ last.tested[k].j <= Len(gameObjects)
           /\ last.tested[k].hit =>
                /\ HasCollider(gameObjects[last.tested[k].i])
                /\ HasCollider(gameObjects[last.tested[k].j])
      /\ \A k \in 1..(Len(last.tested) - 1) : TestedBefore(k)
      /\ Len(last.tested) > 0 =>
           (last.tested[1].hit <=> isColliding(Integrated[1], Integrated[2]))

\* an update() of three bodies, one without a collider, that resolved the
\* last pair and not the first
C11_Witness ==
    /\ last.op = "update"
    /\ Len(last.tested) = 3
    /\ ~last.tested[1].hit
    /\ last.tested[3].hit
    /\ \E k \in 1..3 : ~HasCollider(gameObjects[k])

\* the pairs that overlap right after integration
FlaggedPairs ==
    { p \in (1..Len(last.pre)) \X (1..Len(last.pre)) :
        p[1] < p[2] /\ isColliding(Integrated[p[1]], Integrated[p[2]]) }

\* the pairs that the last update() passed to resolveCollision
ResolvedPairs ==
    { << last.tested[k].i, last.tested[k].j >> :
        k \in { n \in 1..Len(last.tested) : last.tested[n].hit } }

\* C12 as stated: the pairs an update() resolves are exactly the pairs that
\* overlap right after integration.
C12_DetectionBeforeResolution ==
    last.op = "update" => ResolvedPairs = FlaggedPairs

\* whether resolveCollision(a, b) reaches its default path: neither body is
\* a triangle facing a gravity-enabled box or circle
TakesDefaultPath(a, b) ==
    /\ ~(a.collider.type = "triangle" /\ b.hasGravity
           /\ b.collider.type \in {"box", "circle"})
    /\ ~(b.collider.type = "triangle" /\ a.hasGravity
           /\ a.collider.type \in {"box", "circle"})

\* the distance of the centers of the bodies' rectangles, along x and y
CenterGapX(objs) ==
    MathAbs(Sub(Add(objs[1].x, Div(objs[1].width, Num(2))),
                Add(objs[2].x, Div(objs[2].width, Num(2)))))

CenterGapY(objs) ==
    MathAbs(Sub(Add(objs[1].y, Div(objs[1].height, Num(2))),
                Add(objs[2].y, Div(objs[2].height, Num(2)))))

\* the penetration depth of the resolved pair along x and along y
DepthX == Sub(Div(Add(last.pre[1].width, last.pre[2].width), Num(2)), CenterGapX(last.pre))

DepthY == Sub(Div(Add(last.pre[1].height, last.pre[2].height), Num(2)), CenterGapY(last.pre))

\* the default path was taken on rectangles overlapping on both axes
ResolvedByDefault ==
    /\ last.op = "resolve"
    /\ TakesDefaultPath(last.pre[1], last.pre[2])
    /\ Gt(DepthX, Num(0))
    /\ Gt(DepthY, Num(0))

\* depth * mass of the other body / (mass_a + mass_b), for body i
MassShare(depth, i) ==
    Div(Mul(depth, last.pre[3 - i].mass), Add(last.pre[1].mass, last.pre[2].mass))

\* the correction along x: each body moved by its share, in opposite
\* directions, the centers depth further apart, vx = 0, y and vy as before
CorrectedAlongX ==
    /\ \A i \in 1..2 :
         /\ MathAbs(Sub(gameObjects[i].x, last.pre[i].x)) = MassShare(DepthX, i)
         /\ gameObjects[i].vx = Num(0)
         /\ gameObjects[i].y = last.pre[i].y
         /\ gameObjects[i].vy = last.pre[i].vy
    /\ Le(Mul(Sub(gameObjects[1].x, last.pre[1].x),
              Sub(gameObjects[2].x, last.pre[2].x)), Num(0))
    /\ CenterGapX(gameObjects) = Add(CenterGapX(last.pre), DepthX)

\* the same along y
CorrectedAlongY ==
    /\ \A i \in 1..2 :
         /\ MathAbs(Sub(gameObjects[i].y, last.pre[i].y)) = MassShare(DepthY, i)
         /\ gameObjects[i].vy = Num(0)
         /\ gameObjects[i].x = last.pre[i].x
         /\ gameObjects[i].vx = last.pre[i].vx
    /\ Le(Mul(Sub(gameObjects[1].y, last.pre[1].y),
              Sub(gameObjects[2].y, last.pre[2].y)), Num(0))
    /\ CenterGapY(gameObjects) = Add(CenterGapY(last.pre), DepthY)

\* C13: in the default path, on rectangles overlapping on both axes, the
\* correction is along x iff the depth along x is the smaller one, each body
\* moves by depth * (mass of the other) / (mass_a + mass_b) away from the
\* other, the velocity on that axis becomes 0 and the other axis is untouched.
C13_DefaultPathCorrection ==
    ResolvedByDefault =>
      IF Lt(DepthX, DepthY) THEN CorrectedAlongX ELSE CorrectedAlongY

\* bodies of different mass, one of them moving, were corrected along x
C13_Witness ==
    /\ ResolvedByDefault
    /\ Lt(DepthX, DepthY)
    /\ last.pre[1].mass # last.pre[2].mass
    /\ last.pre[1].vy # Num(0)
    /\ last.pre[1].vx # Num(0)
    /\ CorrectedAlongX

\* the body of the resolved pair that faces the triangle
BoxIndex == 3 - TriIndex

\* resolveCollision has handled a triangle and a gravity-enabled box
ResolvedTriangleBox ==
    /\ last.op = "resolve"
    /\ last.pre[TriIndex].collider.type = "triangle"
    /\ last.pre[BoxIndex].collider.type = "box"
    /\ last.pre[BoxIndex].hasGravity

\* the center of the box before the resolution
BoxCenter ==
    Pt(Add(last.pre[BoxIndex].x, Div(last.pre[BoxIndex].width, Num(2))),
       Add(last.pre[BoxIndex].y, Div(last.pre[BoxIndex].height, Num(2))))

\* the displacement of the box
Push ==
    Pt(Sub(gameObjects[BoxIndex].x, last.pre[BoxIndex].x),
       Sub(gameObjects[BoxIndex].y, last.pre[BoxIndex].y))

\* edge k of the triangle as a vector, and the vector from its first vertex
\* to the vertex opposite to it
EdgeVec(k) ==
    Pt(Sub(PreVerts[NextVert(k)].x, PreVerts[k].x),
       Sub(PreVerts[NextVert(k)].y, PreVerts[k].y))

ToOpposite(k) ==
    Pt(Sub(PreVerts[NextVert(NextVert(k))].x, PreVerts[k].x),
       Sub(PreVerts[NextVert(NextVert(k))].y, PreVerts[k].y))

\* the three vertices are not on one line
ProperTriangle == Cross(EdgeVec(1).x, EdgeVec(1).y, ToOpposite(1)) # Num(0)

\* the perpendicular distance from the box center to the line of edge k
LineDistance(k) ==
    Div(MathAbs(Cross(Sub(BoxCenter.x, PreVerts[k].x), Sub(BoxCenter.y, PreVerts[k].y),
                      EdgeVec(k))),
        MathHypot(EdgeVec(k).x, EdgeVec(k).y))

NearestEdge(k) == \A m \in 1..3 : Le(LineDistance(k), LineDistance(m))

\* the displacement has length 2 and is perpendicular to edge k
PushedAcross(k) ==
    /\ Dot(Push.x, Push.y, Push) = Num(4)
    /\ Dot(Push.x, Push.y, EdgeVec(k)) = Num(0)

\* the displacement points away from the vertex opposite to edge k
PushedOutOf(k) == Lt(Dot(Push.x, Push.y, ToOpposite(k)), Num(0))

\* C14 as stated: a gravity-enabled box resolved against a triangle is moved
\* by 2 along the normal of an edge nearest to its center, out of the
\* triangle, whatever the order of the triangle's vertices.
C14_BoxPushedOutward ==
    (ResolvedTriangleBox /\ ProperTriangle) =>
      \E k \in 1..3 : NearestEdge(k) /\ PushedAcross(k) /\ PushedOutOf(k)

\* the triangle and the circle of a tested pair, and the test on them
TestedTri == IF gameObjects[1].collider.type = "triangle" THEN 1 ELSE 2

TestedCircle == 3 - TestedTri

TestedTriangleCircle ==
    /\ last.op = "detect"
    /\ gameObjects[TestedTri].collider.type = "triangle"
    /\ gameObjects[TestedCircle].collider.type = "circle"

TestedVerts == WorldVerts(gameObjects[TestedTri].collider, gameObjects[TestedTri])

TestedCenter == circleCenter(gameObjects[TestedCircle])

\* edge k of the tested triangle has length zero
ZeroLengthEdge(k) == TestedVerts[k] = TestedVerts[NextVert(k)]

\* the squared distance that the edge loop compares with radius * radius
EdgeDistSq(k) ==
    edgeDistanceSquared(TestedCenter.x, TestedCenter.y,
                        TestedVerts[k], TestedVerts[NextVert(k)])

\* edge k passes the comparison of the edge loop
EdgeHit(k) ==
    Lt(EdgeDistSq(k), Mul(gameObjects[TestedCircle].collider.radius,
                          gameObjects[TestedCircle].collider.radius))

\* the center-in-triangle test or an edge of non-zero length decides
WithoutZeroEdges ==
    \/ pointInTriangle(TestedCenter.x, TestedCenter.y,
                       TestedVerts[1], TestedVerts[2], TestedVerts[3])
    \/ \E k \in 1..3 : ~ZeroLengthEdge(k) /\ EdgeHit(k)

\* a zero-length edge does not pass the comparison, and both operand orders
\* return what the center test and the other edges give
ZeroEdgesIgnored ==
    /\ \A k \in 1..3 : ZeroLengthEdge(k) => ~EdgeHit(k)
    /\ last.ab = WithoutZeroEdges
    /\ last.ba = WithoutZeroEdges

ResolvedTriangleBody ==
    /\ last.op = "resolve"
    /\ last.pre[TriIndex].collider.type = "triangle"
    /\ last.pre[BoxIndex].collider.type \in {"box", "circle"}
    /\ last.pre[BoxIndex].hasGravity

\* C16: resolving a triangle and a gravity-enabled box or circle leaves the
\* triangle as it was, whichever operand it is, and resolveCollision with
\* the operands exchanged gives the same two bodies.
C16_OnlyTheBodyMoves ==
    ResolvedTriangleBody =>
      /\ gameObjects[TriIndex] = last.pre[TriIndex]
      /\ resolveCollision(last.pre[2], last.pre[1]).a = gameObjects[2]
      /\ resolveCollision(last.pre[2], last.pre[1]).b = gameObjects[1]

\* a box passed as a, with the triangle as b, was moved and slowed down
C16_Witness ==
    /\ ResolvedTriangleBody
    /\ TriIndex = 2
    /\ last.pre[1].collider.type = "box"
    /\ gameObjects[1].x # last.pre[1].x
    /\ gameObjects[1].vy # last.pre[1].vy
    /\ IsFinite(gameObjects[1].x)
    /\ gameObjects[2] = last.pre[2]

============================================================================
